---- MODULE Spec2Model ----
(***************************************************************************)
(* ate/runner.py: TestRunner.  One runner owns one Context and one         *)
(* suite-level request snapshot; update_context, run_test, run_testset and *)
(* run_testsets are the operations a caller may invoke on it.              *)
(*                                                                         *)
(* Python values: a dict is a function with a string domain, a list is a   *)
(* sequence.  A template value is either a string, written [s |-> tokens]  *)
(* (the text cut into tokens, a token being a piece of literal text or a   *)
(* placeholder), or a mapping, written [m |-> dict].                       *)
(***************************************************************************)
EXTENDS Integers, Sequences, FiniteSets, TLC

\* Longest list of testsets handed to run_testsets.
MaxSets == 2

\* Longest list of testcases in one testset.
MaxCases == 2

\* Most testcases in all the testsets of one run_testsets call.
MaxTests == 3

----------------------------------------------------------------------------
(* dicts *)

EmptyDict == [k \in {} |-> k]

Has(d, k) == k \in DOMAIN d

\* dict.get(k, default)
Get(d, k, default) == IF k \in DOMAIN d THEN d[k] ELSE default

\* d.update(e): the keys of e win
DictUpdate(d, e) ==
  [k \in DOMAIN d \cup DOMAIN e |-> IF k \in DOMAIN e THEN e[k] ELSE d[k]]

\* d after d.pop(k)
DictPop(d, k) == [j \in DOMAIN d \ {k} |-> d[j]]

\* copy.deepcopy(d): a structurally equal value that shares nothing with d
DeepCopy(d) == d

----------------------------------------------------------------------------
(* template values *)

Str(tokens) == [s |-> tokens]

Map(d) == [m |-> d]

IsStr(v) == "s" \in DOMAIN v

\* The placeholder tokens and the variable each one names.
PlaceholderName == ("${H}" :> "H") @@ ("${token}" :> "token")

IsPlaceholder(tok) == tok \in DOMAIN PlaceholderName

\* str(value), as the fragment put in place of an embedded placeholder
Stringify(v) == IF IsStr(v) THEN v.s ELSE <<"{...}">>

RECURSIVE Substitute(_, _)
\* every placeholder of a string with surrounding text replaced by the
\* stringified value
Substitute(tokens, vars) ==
  IF tokens = <<>> THEN <<>>
  ELSE (IF IsPlaceholder(Head(tokens))
          THEN Stringify(vars[PlaceholderName[Head(tokens)]])
          ELSE <<Head(tokens)>>) \o Substitute(Tail(tokens), vars)

\* a string that is exactly one placeholder gets the variable's native value
ResolveString(tokens, vars) ==
  IF Len(tokens) = 1 /\ IsPlaceholder(tokens[1])
    THEN vars[PlaceholderName[tokens[1]]]
    ELSE Str(Substitute(tokens, vars))

RECURSIVE Resolve(_, _)
Resolve(v, vars) ==
  IF IsStr(v) THEN ResolveString(v.s, vars)
  ELSE Map([k \in DOMAIN v.m |-> Resolve(v.m[k], vars)])

RECURSIVE Unbound(_, _)
\* the variable names a value refers to that the table does not bind
Unbound(v, vars) ==
  IF IsStr(v)
    THEN {PlaceholderName[v.s[i]] : i \in {j \in 1..Len(v.s) : IsPlaceholder(v.s[j])}}
         \ DOMAIN vars
    ELSE UNION {Unbound(v.m[k], vars) : k \in DOMAIN v.m}

\* ate.testcase.parse_template(content, variables): a resolved copy of the
\* mapping, or VariableNotFound
parse_template(content, vars) ==
  IF Unbound(Map(content), vars) # {}
    THEN [err |-> "VariableNotFound", value |-> EmptyDict]
    ELSE [err |-> "none", value |-> Resolve(Map(content), vars).m]

----------------------------------------------------------------------------
(* ate.context.Context: variables, functions, requires *)

KnownModules == {"random"}

NewContext == [variables |-> EmptyDict, functions |-> EmptyDict, requires |-> {}]

Ok(ctx) == [err |-> "none", context |-> ctx]

Fail(e, ctx) == [err |-> e, context |-> ctx]

RECURSIVE import_requires(_, _)
\* Context.import_requires(names): import and record each module in turn
import_requires(ctx, names) ==
  IF names = <<>> THEN Ok(ctx)
  ELSE IF Head(names) \notin KnownModules THEN Fail("ImportError", ctx)
  ELSE import_requires([ctx EXCEPT !.requires = @ \cup {Head(names)}], Tail(names))

\* Context.bind_functions(function_binds): each expression evaluated into a
\* callable and stored under its name, overwriting
bind_functions(ctx, function_binds) ==
  IF \E n \in DOMAIN function_binds : ~function_binds[n].callable
    THEN Fail("FunctionBindError", ctx)
    ELSE Ok([ctx EXCEPT !.functions = DictUpdate(@, function_binds)])

RECURSIVE JoinArgs(_)
JoinArgs(args) ==
  IF args = <<>> THEN <<>> ELSE Stringify(Head(args)) \o JoinArgs(Tail(args))

\* the value a bound callable returns for resolved arguments
Invoke(fn, args) == Str(<<fn.returns>> \o JoinArgs(args))

\* one {name: spec} entry of variable_binds
bind_variable(ctx, item) ==
  LET name == CHOOSE k \in DOMAIN item : TRUE
      spec == item[name]
  IN IF ~Has(spec, "func")
       THEN Ok([ctx EXCEPT !.variables = DictUpdate(@, item)])
     ELSE IF \E i \in 1..Len(spec.args) : Unbound(spec.args[i], ctx.variables) # {}
       THEN Fail("VariableNotFound", ctx)
     ELSE IF ~Has(ctx.functions, spec.func)
       THEN Fail("VariableBindError", ctx)
     ELSE IF ctx.functions[spec.func].module \notin ctx.requires
       THEN Fail("VariableBindError", ctx)
     ELSE Ok([ctx EXCEPT !.variables =
                DictUpdate(@, name :> Invoke(ctx.functions[spec.func],
                    [i \in 1..Len(spec.args) |-> Resolve(spec.args[i], ctx.variables)]))])

RECURSIVE bind_variables(_, _)
\* Context.bind_variables(variable_binds): in the order given, each entry
\* seeing the ones bound before it
bind_variables(ctx, variable_binds) ==
  IF variable_binds = <<>> THEN Ok(ctx)
  ELSE LET r == bind_variable(ctx, Head(variable_binds))
       IN IF r.err # "none" THEN r ELSE bind_variables(r.context, Tail(variable_binds))

\* Context.update_variables(mapping): bulk overwrite
update_variables(ctx, mapping) ==
  [ctx EXCEPT !.variables = DictUpdate(@, mapping)]

----------------------------------------------------------------------------
(* ate.response.ResponseObject and the HTTP transport *)

\* The responses the server may give: the fields of the response by name.
Responses ==
  { [status |-> Str(<<"200">>), token |-> Str(<<"t1">>)],
    [status |-> Str(<<"200">>), token |-> Str(<<"t2">>)],
    [status |-> Str(<<"500">>)] }

\* A url whose host refuses the connection.
DownUrl == Str(<<"http://down/">>)

\* requests.Session.request(url, method, **kwargs): the outcomes it may have
Transport(u, meth, kwargs) ==
  IF u = DownUrl THEN {[err |-> "ConnectionError", resp |-> EmptyDict]}
  ELSE {[err |-> "none", resp |-> r] : r \in Responses}

\* ResponseObject.extract_response(extract_binds): name -> the field at its path
extract_response(r, extract_binds) ==
  IF \E n \in DOMAIN extract_binds : ~Has(r, extract_binds[n])
    THEN [err |-> "ParseResponseError", value |-> EmptyDict]
    ELSE [err |-> "none",
          value |-> [n \in DOMAIN extract_binds |-> r[extract_binds[n]]]]

RECURSIVE Diffs(_, _, _)
\* one diff record per validator whose expected value differs from the
\* checked field, in the validators' order
Diffs(r, validators, vars) ==
  IF validators = <<>> THEN <<>>
  ELSE LET v == Head(validators)
           expected == Resolve(v.expect, vars)
       IN (IF r[v.check] = expected THEN <<>>
           ELSE <<[check |-> v.check, expected |-> expected, actual |-> r[v.check]]>>)
          \o Diffs(r, Tail(validators), vars)

\* ResponseObject.validate(validators, variables) and the success flag it sets
validate(r, validators, vars) ==
  IF \E i \in 1..Len(validators) : Unbound(validators[i].expect, vars) # {}
    THEN [err |-> "VariableNotFound", success |-> FALSE, diff |-> <<>>]
  ELSE IF \E i \in 1..Len(validators) : ~Has(r, validators[i].check)
    THEN [err |-> "ParseResponseError", success |-> FALSE, diff |-> <<>>]
  ELSE [err |-> "none",
        success |-> Diffs(r, validators, vars) = <<>>,
        diff |-> Diffs(r, validators, vars)]

----------------------------------------------------------------------------
(* TestRunner: the pure part of each step *)

\* update_context on a Context made anew for each config
update_context_fresh(ctx, suite, config, level) ==
  LET r1 == import_requires(NewContext, Get(config, "requires", <<>>))
      r2 == IF r1.err # "none" THEN r1
            ELSE bind_functions(r1.context, Get(config, "function_binds", EmptyDict))
      r3 == IF r2.err # "none" THEN r2
            ELSE bind_variables(r2.context, Get(config, "variable_binds", <<>>))
  IN [err |-> r3.err,
      context |-> r3.context,
      testset_req_overall_configs |->
        IF r3.err = "none" /\ level = "testset"
          THEN Get(config, "request", EmptyDict)
          ELSE suite]

\* update_context that binds the variables before the functions
update_context_variables_first(ctx, suite, config, level) ==
  LET r1 == import_requires(ctx, Get(config, "requires", <<>>))
      r2 == IF r1.err # "none" THEN r1
            ELSE bind_variables(r1.context, Get(config, "variable_binds", <<>>))
      r3 == IF r2.err # "none" THEN r2
            ELSE bind_functions(r2.context, Get(config, "function_binds", EmptyDict))
  IN [err |-> r3.err,
      context |-> r3.context,
      testset_req_overall_configs |->
        IF r3.err = "none" /\ level = "testset"
          THEN Get(config, "request", EmptyDict)
          ELSE suite]

\* update_context that overlays the config's request on the suite-level
\* request it finds, instead of replacing it
update_context_overlay(ctx, suite, config, level) ==
  LET r1 == import_requires(ctx, Get(config, "requires", <<>>))
      r2 == IF r1.err # "none" THEN r1
            ELSE bind_functions(r1.context, Get(config, "function_binds", EmptyDict))
      r3 == IF r2.err # "none" THEN r2
            ELSE bind_variables(r2.context, Get(config, "variable_binds", <<>>))
  IN [err |-> r3.err,
      context |-> r3.context,
      testset_req_overall_configs |->
        IF r3.err = "none" /\ level = "testset"
          THEN DictUpdate(suite, Get(config, "request", EmptyDict))
          ELSE suite]

\* update_context that takes the config's request at every level
update_context_any_level(ctx, suite, config, level) ==
  LET r1 == import_requires(ctx, Get(config, "requires", <<>>))
      r2 == IF r1.err # "none" THEN r1
            ELSE bind_functions(r1.context, Get(config, "function_binds", EmptyDict))
      r3 == IF r2.err # "none" THEN r2
            ELSE bind_variables(r2.context, Get(config, "variable_binds", <<>>))
  IN [err |-> r3.err,
      context |-> r3.context,
      testset_req_overall_configs |->
        IF r3.err = "none"
          THEN Get(config, "request", EmptyDict)
          ELSE suite]

\* update_context(config_dict, level): the three binding steps in order,
\* then the suite-level request, replaced only at level "testset"
update_context(ctx, suite, config, level) ==
  LET r1 == import_requires(ctx, Get(config, "requires", <<>>))
      r2 == IF r1.err # "none" THEN r1
            ELSE bind_functions(r1.context, Get(config, "function_binds", EmptyDict))
      r3 == IF r2.err # "none" THEN r2
            ELSE bind_variables(r2.context, Get(config, "variable_binds", <<>>))
  IN [err |-> r3.err,
      context |-> r3.context,
      testset_req_overall_configs |->
        IF r3.err = "none" /\ level = "testset"
          THEN Get(config, "request", EmptyDict)
          ELSE suite]

\* the merge done on the live object, without copy.deepcopy
merge_request_aliased(suite, tc) ==
  IF ~Has(tc, "request")
    THEN [err |-> "KeyError", testset_req_overall_configs |-> suite,
          testcase_request |-> suite]
    ELSE [err |-> "none",
          testset_req_overall_configs |-> DictUpdate(suite, tc.request),
          testcase_request |-> DictUpdate(suite, tc.request)]

\* the merge that takes a missing request for an empty one:
\* testcase.get("request", {})
merge_request_lenient(suite, tc) ==
  [err |-> "none", testset_req_overall_configs |-> suite,
   testcase_request |-> DictUpdate(DeepCopy(suite), Get(tc, "request", EmptyDict))]

\* the merge done key by key inside nested mappings as well
merge_request_deep(suite, tc) ==
  IF ~Has(tc, "request")
    THEN [err |-> "KeyError", testset_req_overall_configs |-> suite,
          testcase_request |-> DeepCopy(suite)]
    ELSE [err |-> "none", testset_req_overall_configs |-> suite,
          testcase_request |->
            [k \in DOMAIN suite \cup DOMAIN tc.request |->
               IF ~Has(tc.request, k) THEN suite[k]
               ELSE IF ~Has(suite, k) THEN tc.request[k]
               ELSE IF IsStr(suite[k]) \/ IsStr(tc.request[k]) THEN tc.request[k]
               ELSE Map(DictUpdate(suite[k].m, tc.request[k].m))]]

\* the merge with the operands swapped: the suite's keys win
merge_request_suite_wins(suite, tc) ==
  IF ~Has(tc, "request")
    THEN [err |-> "KeyError", testset_req_overall_configs |-> suite,
          testcase_request |-> DeepCopy(suite)]
    ELSE [err |-> "none", testset_req_overall_configs |-> suite,
          testcase_request |-> DictUpdate(tc.request, DeepCopy(suite))]

\* testcase_request = copy.deepcopy(self.testset_req_overall_configs)
\* testcase_request.update(testcase["request"])
\* Gives the object the runner holds afterwards and the local one.
merge_request(suite, tc) ==
  IF ~Has(tc, "request")
    THEN [err |-> "KeyError", testset_req_overall_configs |-> suite,
          testcase_request |-> DeepCopy(suite)]
    ELSE [err |-> "none", testset_req_overall_configs |-> suite,
          testcase_request |-> DictUpdate(DeepCopy(suite), tc.request)]

\* the check with method popped leniently: pop('method', None)
pop_url_method_lenient(parsed) ==
  IF ~Has(parsed, "url")
    THEN [err |-> "ParamsError", url |-> Str(<<>>), method |-> Str(<<>>),
          parsed_request |-> parsed]
  ELSE [err |-> "none", url |-> parsed.url,
        method |-> Get(parsed, "method", Str(<<>>)),
        parsed_request |-> DictPop(DictPop(parsed, "url"), "method")]

\* url = parsed_request.pop('url'); method = parsed_request.pop('method')
\* with KeyError turned into ParamsError
pop_url_method(parsed) ==
  IF ~Has(parsed, "url")
    THEN [err |-> "ParamsError", url |-> Str(<<>>), method |-> Str(<<>>),
          parsed_request |-> parsed]
  ELSE IF ~Has(parsed, "method")
    THEN [err |-> "ParamsError", url |-> parsed.url, method |-> Str(<<>>),
          parsed_request |-> DictPop(parsed, "url")]
  ELSE [err |-> "none", url |-> parsed.url, method |-> parsed.method,
        parsed_request |-> DictPop(DictPop(parsed, "url"), "method")]

----------------------------------------------------------------------------
(* the configurations a caller hands to the runner *)

Url == Str(<<"http://x/y">>)

GET == Str(<<"GET">>)

POST == Str(<<"POST">>)

GenRandom == [callable |-> TRUE, module |-> "random", returns |-> "rnd:"]

\* testset-level configs
Configs ==
  { EmptyDict,
    [variable_binds |-> <<[H |-> Str(<<"abc">>)]>>,
     request |-> [headers |-> Map([A |-> Str(<<"${H}">>)])]],
    [variable_binds |-> <<[token |-> Str(<<"t1">>)]>>,
     request |-> [url |-> Str(<<"http://x/base">>), method |-> GET,
                  headers |-> Map([X |-> Str(<<"1">>), Y |-> Str(<<"3">>)])]],
    [requires |-> <<"random">>,
     function_binds |-> [gen |-> GenRandom],
     variable_binds |-> <<[H |-> Str(<<"abc">>)],
                          [R |-> [func |-> "gen", args |-> <<Str(<<"${H}">>)>>]]>>] }

Testcases ==
  { [request |-> [url |-> Url, method |-> GET],
     validators |-> <<[check |-> "status", expect |-> Str(<<"200">>)]>>],
    [variable_binds |-> <<[H |-> Str(<<"xyz">>)]>>,
     request |-> [method |-> POST, headers |-> Map([X |-> Str(<<"2">>)])]],
    [request |-> [url |-> Url]],
    [request |-> [url |-> Url, method |-> GET],
     extract_binds |-> [token |-> "token"],
     validators |-> <<[check |-> "token", expect |-> Str(<<"${token}">>)]>>],
    [request |-> [url |-> Str(<<"http://x/", "${token}">>), method |-> GET,
                  headers |-> Map([A |-> Str(<<"${H}">>)])]],
    [variable_binds |-> <<[token |-> Str(<<"t1">>)]>>],
    [variable_binds |-> <<[R |-> [func |-> "gen", args |-> <<Str(<<"abc">>)>>]]>>,
     request |-> [url |-> DownUrl, method |-> GET]] }

----------------------------------------------------------------------------
(* the runner's state *)

VARIABLES
  context,                      \* self.context
  testset_req_overall_configs,  \* self.testset_req_overall_configs
  pc,                           \* the statement about to run, "idle" between calls
  top,                          \* the operation the caller invoked
  ret,                          \* how the caller's last call ended
  n_sets,                       \* run_testsets: len(testsets)
  ts_i,                         \* run_testsets: testsets taken so far
  all_results,                  \* run_testsets: the list being built
  config_dict,                  \* run_testset: testset.get("config", {})
  n_cases,                      \* run_testset: len(testcases)
  tc_j,                         \* run_testset: testcases taken so far
  results,                      \* run_testset: results
  testcase,                     \* run_test: testcase
  testcase_request,             \* run_test: testcase_request
  parsed_request,               \* run_test: parsed_request
  url,                          \* run_test: url
  method,                       \* run_test: method
  resp,                         \* run_test: resp_obj
  outcome,                      \* run_test: (resp_obj.success, diff_content_list)
  dispatched,                   \* history: <<i, j>> of each request sent in this call
  completed,                    \* history: each testcase that returned, with its result
  sizes,                        \* history: len(testcases) of each testset begun
  last_set,                     \* history: the value last bound or extracted, by name
  extracted                     \* history: for each name extracted in this call, the
                                \* value the latest testcase extracted or bound

runner == <<context, testset_req_overall_configs>>

control == <<pc, top, ret>>

testsets_frame == <<n_sets, ts_i, all_results>>

testset_frame == <<config_dict, n_cases, tc_j, results>>

test_frame == <<testcase, testcase_request, parsed_request, url, method, resp, outcome>>

history == <<dispatched, completed, sizes, last_set, extracted>>

vars == <<runner, control, testsets_frame, testset_frame, test_frame, history>>

\* def update_context(self, config_dict, level="testcase")
DefaultLevel == "testcase"

NoRet == [kind |-> "none", api |-> "none", err |-> "none", value |-> <<>>]

Returned(v) == [kind |-> "return", api |-> top, err |-> "none", value |-> v]

Raised(e) == [kind |-> "raise", api |-> top, err |-> e, value |-> <<>>]

NoOutcome == <<FALSE, <<>>>>

ClearTest ==
  /\ testcase' = EmptyDict
  /\ testcase_request' = EmptyDict
  /\ parsed_request' = EmptyDict
  /\ url' = Str(<<>>)
  /\ method' = Str(<<>>)
  /\ resp' = EmptyDict
  /\ outcome' = NoOutcome

ClearTestset ==
  /\ config_dict' = EmptyDict
  /\ n_cases' = 0
  /\ tc_j' = 0
  /\ results' = <<>>

ClearTestsets ==
  /\ n_sets' = 0
  /\ ts_i' = 0
  /\ all_results' = <<>>

\* the call ends: control is back with the caller, the frames are gone
Leave(r) ==
  /\ pc' = "idle"
  /\ top' = "none"
  /\ ret' = r
  /\ ClearTest
  /\ ClearTestset
  /\ ClearTestsets

\* an exception caught in run_test and turned into a failed result
Swallow(e) ==
  IF top \in {"run_testset", "run_testsets"} /\ pc # "run_testset"
    THEN /\ results' = Append(results, NoOutcome)
         /\ pc' = "for_testcase"
         /\ ClearTest
         /\ UNCHANGED <<top, ret, testsets_frame, config_dict, n_cases, tc_j>>
    ELSE Leave(Returned(NoOutcome))

\* an exception caught by run_testset / run_testsets, which return what they
\* have collected so far
Raise_ReturnCollected(e) ==
  IF top = "run_testset" THEN Leave(Returned(results))
  ELSE IF top = "run_testsets" THEN Leave(Returned(Append(all_results, results)))
  ELSE Leave(Raised(e))

\* an exception: no frame of the runner catches it, so it ends the caller's call
Raise(e) == Leave(Raised(e))

\* the names a config's variable_binds binds
BoundNames(config) ==
  LET binds == Get(config, "variable_binds", <<>>)
  IN {CHOOSE k \in DOMAIN binds[i] : TRUE : i \in 1..Len(binds)}

\* history: the values the names of a config are bound to after it was applied
NoteBound(config, ctx) ==
  last_set' = DictUpdate(last_set,
     [n \in BoundNames(config) \cap DOMAIN ctx.variables |-> ctx.variables[n]])

\* history: a testcase rebinds names extracted earlier in the call
NoteTestcaseBound(config, ctx) ==
  extracted' = DictUpdate(extracted,
     [n \in BoundNames(config) \cap DOMAIN extracted |-> ctx.variables[n]])

Init ==
  /\ context = NewContext
  /\ testset_req_overall_configs = EmptyDict
  /\ pc = "idle"
  /\ top = "none"
  /\ ret = NoRet
  /\ n_sets = 0
  /\ ts_i = 0
  /\ all_results = <<>>
  /\ config_dict = EmptyDict
  /\ n_cases = 0
  /\ tc_j = 0
  /\ results = <<>>
  /\ testcase = EmptyDict
  /\ testcase_request = EmptyDict
  /\ parsed_request = EmptyDict
  /\ url = Str(<<>>)
  /\ method = Str(<<>>)
  /\ resp = EmptyDict
  /\ outcome = NoOutcome
  /\ dispatched = <<>>
  /\ completed = <<>>
  /\ sizes = <<>>
  /\ last_set = EmptyDict
  /\ extracted = EmptyDict

----------------------------------------------------------------------------
(* the caller's calls *)

\* runner.update_context(config, level)
CallUpdateContext(config, level) ==
  /\ pc = "idle"
  /\ LET r == update_context(context, testset_req_overall_configs, config, level)
     IN /\ context' = r.context
        /\ testset_req_overall_configs' = r.testset_req_overall_configs
        /\ NoteBound(config, r.context)
        /\ ret' = [kind |-> IF r.err = "none" THEN "return" ELSE "raise",
                   api |-> "update_context", err |-> r.err, value |-> <<>>]
  /\ dispatched' = <<>>
  /\ completed' = <<>>
  /\ sizes' = <<>>
  /\ extracted' = EmptyDict
  /\ UNCHANGED <<pc, top, testsets_frame, testset_frame, test_frame>>

\* runner.run_test(tc)
CallRunTest(tc) ==
  /\ pc = "idle"
  /\ pc' = "update_context"
  /\ top' = "run_test"
  /\ ret' = NoRet
  /\ testcase' = tc
  /\ dispatched' = <<>>
  /\ completed' = <<>>
  /\ sizes' = <<>>
  /\ extracted' = EmptyDict
  /\ UNCHANGED <<runner, testsets_frame, testset_frame, last_set,
                 testcase_request, parsed_request, url, method, resp, outcome>>

\* runner.run_testset(testset), the testset having this config and m testcases
CallRunTestset(config, m) ==
  /\ pc = "idle"
  /\ pc' = "run_testset"
  /\ top' = "run_testset"
  /\ ret' = NoRet
  /\ config_dict' = config
  /\ n_cases' = m
  /\ ts_i' = 1
  /\ dispatched' = <<>>
  /\ completed' = <<>>
  /\ sizes' = <<m>>
  /\ extracted' = EmptyDict
  /\ UNCHANGED <<runner, n_sets, all_results, tc_j, results, test_frame, last_set>>

\* runner.run_testsets(testsets), a list of n testsets
CallRunTestsets(n) ==
  /\ pc = "idle"
  /\ pc' = "run_testsets"
  /\ top' = "run_testsets"
  /\ ret' = NoRet
  /\ n_sets' = n
  /\ dispatched' = <<>>
  /\ completed' = <<>>
  /\ sizes' = <<>>
  /\ extracted' = EmptyDict
  /\ UNCHANGED <<runner, ts_i, all_results, testset_frame, test_frame, last_set>>

----------------------------------------------------------------------------
(* run_testsets and run_testset *)

\* results.insert(0, result)
prepend_result(rs, result) == <<result>> \o rs

\* results.append(result)
append_result(rs, result) == Append(rs, result)

\* [self.run_testset(testset) for testset in testsets]: one more element
collect_testset(all, rs) == Append(all, rs)

\* the comprehension takes the next testset and calls run_testset on it
RunTestsets_Next ==
  /\ pc = "run_testsets"
  /\ ts_i < n_sets
  /\ \E config \in Configs, m \in 0..MaxCases :
       /\ Len(completed) + m <= MaxTests
       /\ config_dict' = config
       /\ n_cases' = m
       /\ sizes' = Append(sizes, m)
  /\ ts_i' = ts_i + 1
  /\ pc' = "run_testset"
  /\ UNCHANGED <<runner, top, ret, n_sets, all_results, tc_j, results, test_frame,
                 dispatched, completed, last_set, extracted>>

\* the comprehension is exhausted: run_testsets returns the list
RunTestsets_Return ==
  /\ pc = "run_testsets"
  /\ ts_i >= n_sets
  /\ Leave(Returned(all_results))
  /\ UNCHANGED <<runner, history>>

\* run_testset: results = []; self.update_context(config_dict)
RunTestset_Begin ==
  /\ pc = "run_testset"
  /\ LET r == update_context(context, testset_req_overall_configs, config_dict,
                             DefaultLevel)
     IN /\ context' = r.context
        /\ testset_req_overall_configs' = r.testset_req_overall_configs
        /\ NoteBound(config_dict, r.context)
        /\ IF r.err # "none"
             THEN Raise(r.err)
             ELSE /\ pc' = "for_testcase"
                  /\ results' = <<>>
                  /\ tc_j' = 0
                  /\ UNCHANGED <<top, ret, testsets_frame, config_dict, n_cases,
                                 test_frame>>
  /\ UNCHANGED <<dispatched, completed, sizes, extracted>>

\* the loop with the testset's config applied again before each testcase, so
\* that a testcase's bindings last for that testcase only
RunTestset_Next_Scoped ==
  /\ pc = "for_testcase"
  /\ tc_j < n_cases
  /\ \E tc \in Testcases : testcase' = tc
  /\ tc_j' = tc_j + 1
  /\ pc' = "update_context"
  /\ context' = update_context(context, testset_req_overall_configs, config_dict,
                               DefaultLevel).context
  /\ UNCHANGED <<testset_req_overall_configs, top, ret, testsets_frame,
                 config_dict, n_cases, results,
                 testcase_request, parsed_request, url, method, resp, outcome,
                 history>>

\* for testcase in testcases: the next testcase, handed to run_test
RunTestset_Next ==
  /\ pc = "for_testcase"
  /\ tc_j < n_cases
  /\ \E tc \in Testcases : testcase' = tc
  /\ tc_j' = tc_j + 1
  /\ pc' = "update_context"
  /\ UNCHANGED <<runner, top, ret, testsets_frame, config_dict, n_cases, results,
                 testcase_request, parsed_request, url, method, resp, outcome,
                 history>>

\* return results, to run_testsets or to the caller
RunTestset_Return ==
  /\ pc = "for_testcase"
  /\ tc_j >= n_cases
  /\ IF top = "run_testsets"
       THEN /\ all_results' = collect_testset(all_results, results)
            /\ pc' = "run_testsets"
            /\ ClearTestset
            /\ UNCHANGED <<top, ret, n_sets, ts_i, test_frame>>
       ELSE Leave(Returned(results))
  /\ UNCHANGED <<runner, history>>

----------------------------------------------------------------------------
(* run_test, statement by statement *)

\* run_test without its first statement
RunTest_UpdateContext_Skipped ==
  /\ pc = "update_context"
  /\ pc' = "merge"
  /\ UNCHANGED <<runner, top, ret, testsets_frame, testset_frame, test_frame, history>>

\* self.update_context(testcase)
RunTest_UpdateContext ==
  /\ pc = "update_context"
  /\ LET r == update_context(context, testset_req_overall_configs, testcase,
                             DefaultLevel)
     IN /\ context' = r.context
        /\ testset_req_overall_configs' = r.testset_req_overall_configs
        /\ NoteBound(testcase, r.context)
        /\ NoteTestcaseBound(testcase, r.context)
        /\ IF r.err # "none"
             THEN Raise(r.err)
             ELSE /\ pc' = "merge"
                  /\ UNCHANGED <<top, ret, testsets_frame, testset_frame, test_frame>>
  /\ UNCHANGED <<dispatched, completed, sizes>>

\* the effective request: a deep copy of the suite-level request, overlaid
\* with testcase["request"]
RunTest_Merge ==
  /\ pc = "merge"
  /\ LET r == merge_request(testset_req_overall_configs, testcase)
     IN /\ testset_req_overall_configs' = r.testset_req_overall_configs
        /\ IF r.err # "none"
             THEN Raise(r.err)
             ELSE /\ testcase_request' = r.testcase_request
                  /\ pc' = "parse_template"
                  /\ UNCHANGED <<top, ret, testsets_frame, testset_frame, testcase,
                                 parsed_request, url, method, resp, outcome>>
  /\ UNCHANGED <<context, history>>

\* parsed_request = parse_template(testcase_request, self.context.variables)
RunTest_Parse ==
  /\ pc = "parse_template"
  /\ LET r == parse_template(testcase_request, context.variables)
     IN IF r.err # "none"
          THEN Raise(r.err)
          ELSE /\ parsed_request' = r.value
               /\ pc' = "pop"
               /\ UNCHANGED <<top, ret, testsets_frame, testset_frame, testcase,
                              testcase_request, url, method, resp, outcome>>
  /\ UNCHANGED <<runner, history>>

\* the pop that, when it fails, takes the variables the testcase bound out
\* of the Context again
RunTest_Pop_Rollback ==
  /\ pc = "pop"
  /\ LET r == pop_url_method(parsed_request)
     IN IF r.err # "none"
          THEN /\ Raise(r.err)
               /\ context' = [context EXCEPT !.variables =
                     [n \in DOMAIN @ \ BoundNames(testcase) |-> @[n]]]
          ELSE /\ url' = r.url
               /\ method' = r.method
               /\ parsed_request' = r.parsed_request
               /\ pc' = "request"
               /\ UNCHANGED <<context, top, ret, testsets_frame, testset_frame,
                              testcase, testcase_request, resp, outcome>>
  /\ UNCHANGED <<testset_req_overall_configs, history>>

\* url and method popped from the request the testcase carries instead of
\* from the resolved copy
RunTest_Pop_OnTestcase ==
  /\ pc = "pop"
  /\ LET r == pop_url_method(parsed_request)
     IN IF r.err # "none"
          THEN Raise(r.err)
          ELSE /\ url' = r.url
               /\ method' = r.method
               /\ testcase' = [testcase EXCEPT
                                !.request = DictPop(DictPop(@, "url"), "method")]
               /\ pc' = "request"
               /\ UNCHANGED <<top, ret, testsets_frame, testset_frame,
                              testcase_request, parsed_request, resp, outcome>>
  /\ UNCHANGED <<runner, history>>

\* url and method popped from the resolved request, or ParamsError
RunTest_Pop ==
  /\ pc = "pop"
  /\ LET r == pop_url_method(parsed_request)
     IN IF r.err # "none"
          THEN Raise(r.err)
          ELSE /\ url' = r.url
               /\ method' = r.method
               /\ parsed_request' = r.parsed_request
               /\ pc' = "request"
               /\ UNCHANGED <<top, ret, testsets_frame, testset_frame, testcase,
                              testcase_request, resp, outcome>>
  /\ UNCHANGED <<runner, history>>

\* the request sent without waiting for its response: run_test returns at
\* once and the loop goes on
RunTest_Request_NoWait ==
  /\ pc = "request"
  /\ IF top = "run_test"
       THEN Leave(Returned(NoOutcome))
       ELSE /\ results' = Append(results, NoOutcome)
            /\ pc' = "for_testcase"
            /\ ClearTest
            /\ UNCHANGED <<top, ret, testsets_frame, config_dict, n_cases, tc_j>>
  /\ dispatched' = Append(dispatched, <<ts_i, tc_j>>)
  /\ UNCHANGED <<runner, completed, sizes, last_set, extracted>>

\* resp = self.client.request(url=url, method=method, **parsed_request)
\* resp_obj = response.ResponseObject(resp)
RunTest_Request ==
  /\ pc = "request"
  /\ \E o \in Transport(url, method, parsed_request) :
       IF o.err # "none"
         THEN Raise(o.err)
         ELSE /\ resp' = o.resp
              /\ pc' = "extract"
              /\ UNCHANGED <<top, ret, testsets_frame, testset_frame, testcase,
                             testcase_request, parsed_request, url, method, outcome>>
  /\ dispatched' = Append(dispatched, <<ts_i, tc_j>>)
  /\ UNCHANGED <<runner, completed, sizes, last_set, extracted>>

\* extraction whose mapping is not merged into the Context
RunTest_Extract_NotMerged ==
  /\ pc = "extract"
  /\ LET r == extract_response(resp, Get(testcase, "extract_binds", EmptyDict))
     IN IF r.err # "none"
          THEN /\ Raise(r.err)
               /\ UNCHANGED <<last_set, extracted>>
          ELSE /\ last_set' = DictUpdate(last_set, r.value)
               /\ extracted' = DictUpdate(extracted, r.value)
               /\ pc' = "validate"
               /\ UNCHANGED <<top, ret, testsets_frame, testset_frame, test_frame>>
  /\ UNCHANGED <<runner, dispatched, completed, sizes>>

\* the validators evaluated before the extracted variables are merged into
\* the Context
RunTest_Extract_AfterValidate ==
  /\ pc = "extract"
  /\ LET v == validate(resp, Get(testcase, "validators", <<>>), context.variables)
         r == extract_response(resp, Get(testcase, "extract_binds", EmptyDict))
     IN IF v.err # "none" \/ r.err # "none"
          THEN /\ Raise(IF v.err # "none" THEN v.err ELSE r.err)
               /\ UNCHANGED <<context, last_set, extracted>>
          ELSE /\ context' = update_variables(context, r.value)
               /\ last_set' = DictUpdate(last_set, r.value)
               /\ extracted' = DictUpdate(extracted, r.value)
               /\ outcome' = <<v.success, v.diff>>
               /\ pc' = "return"
               /\ UNCHANGED <<top, ret, testsets_frame, testset_frame, testcase,
                              testcase_request, parsed_request, url, method, resp>>
  /\ UNCHANGED <<testset_req_overall_configs, dispatched, completed, sizes>>

\* the variables of extract_binds taken from the response and merged into
\* the Context
RunTest_Extract ==
  /\ pc = "extract"
  /\ LET r == extract_response(resp, Get(testcase, "extract_binds", EmptyDict))
     IN IF r.err # "none"
          THEN /\ Raise(r.err)
               /\ UNCHANGED <<context, last_set, extracted>>
          ELSE /\ context' = update_variables(context, r.value)
               /\ last_set' = DictUpdate(last_set, r.value)
               /\ extracted' = DictUpdate(extracted, r.value)
               /\ pc' = "validate"
               /\ UNCHANGED <<top, ret, testsets_frame, testset_frame, test_frame>>
  /\ UNCHANGED <<testset_req_overall_configs, dispatched, completed, sizes>>

\* diff_content_list = resp_obj.validate(validators, self.context.variables)
RunTest_Validate ==
  /\ pc = "validate"
  /\ LET r == validate(resp, Get(testcase, "validators", <<>>), context.variables)
     IN IF r.err # "none"
          THEN Raise(r.err)
          ELSE /\ outcome' = <<r.success, r.diff>>
               /\ pc' = "return"
               /\ UNCHANGED <<top, ret, testsets_frame, testset_frame, testcase,
                              testcase_request, parsed_request, url, method, resp>>
  /\ UNCHANGED <<runner, history>>

\* return resp_obj.success, diff_content_list: to the caller, or to
\* run_testset, which appends it to results
RunTest_Return ==
  /\ pc = "return"
  /\ IF top = "run_test"
       THEN Leave(Returned(outcome))
       ELSE /\ results' = append_result(results, outcome)
            /\ pc' = "for_testcase"
            /\ ClearTest
            /\ UNCHANGED <<top, ret, testsets_frame, config_dict, n_cases, tc_j>>
  /\ completed' = Append(completed, [at |-> <<ts_i, tc_j>>, result |-> outcome])
  /\ UNCHANGED <<runner, dispatched, sizes, last_set, extracted>>

----------------------------------------------------------------------------

Levels == {"testcase", "testset"}

Next ==
  \/ \E config \in Configs, level \in Levels : CallUpdateContext(config, level)
  \/ \E tc \in Testcases : CallRunTest(tc)
  \/ \E config \in Configs, m \in 0..MaxCases : CallRunTestset(config, m)
  \/ \E n \in 0..MaxSets : CallRunTestsets(n)
  \/ RunTestsets_Next
  \/ RunTestsets_Return
  \/ RunTestset_Begin
  \/ RunTestset_Next
  \/ RunTestset_Return
  \/ RunTest_UpdateContext
  \/ RunTest_Merge
  \/ RunTest_Parse
  \/ RunTest_Pop
  \/ RunTest_Request
  \/ RunTest_Extract
  \/ RunTest_Validate
  \/ RunTest_Return

Spec == Init /\ [][Next]_vars

----------------------------------------------------------------------------
(* properties *)

Range(q) == {q[i] : i \in 1..Len(q)}

\* the statements of run_test
RunTestPcs ==
  {"update_context", "merge", "parse_template", "pop", "request", "extract",
   "validate", "return"}

InTestset == top \in {"run_testset", "run_testsets"}

\* at "request": the resolved effective request, url and method put back
Effective == DictUpdate(parsed_request, [url |-> url, method |-> method])

\* C1: in run_testset, once the testset's config has been applied, the
\* suite-level inherited request equals the config's request, and every
\* request sent carries each top-level key of it that the testcase's own
\* request does not define.
C1_TestsetRequestInherited ==
  (InTestset /\ pc \in RunTestPcs \cup {"for_testcase"}) =>
    /\ testset_req_overall_configs = Get(config_dict, "request", EmptyDict)
    /\ (pc = "request") =>
         \A k \in DOMAIN Get(config_dict, "request", EmptyDict) :
            k \in DOMAIN testcase.request \/ k \in DOMAIN Effective

\* C2: no statement of run_test, whether it goes on or raises, changes the
\* suite-level inherited request.
C2_SuiteRequestNotMutated ==
  [][(pc \in RunTestPcs) => UNCHANGED testset_req_overall_configs]_vars

\* C2 happens: a second testcase of a testset has merged its request and
\* inherits a suite-level key it does not define, the suite-level request
\* defining a key the testcase does override.
C2_Witness ==
  /\ InTestset
  /\ tc_j = 2
  /\ pc = "parse_template"
  /\ \E k \in DOMAIN testset_req_overall_configs \ DOMAIN testcase.request :
        testcase_request[k] = testset_req_overall_configs[k]
  /\ \E k \in DOMAIN testset_req_overall_configs \cap DOMAIN testcase.request :
        testcase.request[k] # testset_req_overall_configs[k]

\* C3: the effective request, before resolution, has the testcase's value
\* for every key of the testcase's request, the suite's value for every
\* other key of the suite-level request, and no further key.
C3_OverridePrecedence ==
  (pc = "parse_template") =>
    /\ DOMAIN testcase_request =
         DOMAIN testset_req_overall_configs \cup DOMAIN testcase.request
    /\ \A k \in DOMAIN testcase_request :
         testcase_request[k] = IF k \in DOMAIN testcase.request
                                 THEN testcase.request[k]
                                 ELSE testset_req_overall_configs[k]

\* C3 happens: the merge has met a key both define, with different values,
\* and a key only the suite defines.
C3_Witness ==
  /\ pc = "parse_template"
  /\ \E k \in DOMAIN testset_req_overall_configs \cap DOMAIN testcase.request :
        testcase.request[k] # testset_req_overall_configs[k]
  /\ DOMAIN testset_req_overall_configs \ DOMAIN testcase.request # {}

\* C4: a resolved request without url or without method makes run_test
\* raise ParamsError at the check, with no request sent for the testcase and
\* nothing extracted or validated.
C4_MissingUrlOrMethod ==
  [][(pc = "pop" /\ ~({"url", "method"} \subseteq DOMAIN parsed_request)) =>
       /\ pc' = "idle"
       /\ ret'.kind = "raise"
       /\ ret'.err = "ParamsError"
       /\ <<ts_i, tc_j>> \notin Range(dispatched)
       /\ dispatched' = dispatched
       /\ completed' = completed
       /\ context' = context]_vars

\* C4 happens: a call ended with ParamsError and sent nothing for the
\* failing testcase.
C4_Witness ==
  /\ ret.kind = "raise"
  /\ ret.err = "ParamsError"
  /\ Len(dispatched) = Len(completed)

\* C5 as stated: when a testcase's request is resolved, every name extracted
\* earlier in the call is bound in the Context, to the value given by the
\* latest testcase that extracted or bound it.
C5_LatestTestcaseValue ==
  (pc = "parse_template") =>
    \A v \in DOMAIN extracted :
       /\ v \in DOMAIN context.variables
       /\ context.variables[v] = extracted[v]

\* C5: when a testcase's request is resolved, every name extracted earlier
\* in the call is bound in the Context, to the value the latest extraction
\* or binding of that name gave it, a testset's config being one of those
\* that bind.
C5_ExtractedVisibleLater ==
  (pc = "parse_template") =>
    \A v \in DOMAIN extracted :
       /\ v \in DOMAIN context.variables
       /\ context.variables[v] = last_set[v]

\* C5 happens: the first testcase of a second testset is about to resolve a
\* request that refers to a name a testcase of the first testset extracted.
C5_Witness ==
  /\ pc = "parse_template"
  /\ top = "run_testsets"
  /\ ts_i = 2
  /\ tc_j = 1
  /\ Unbound(Map(testcase_request), EmptyDict) \cap DOMAIN extracted # {}

\* C6: no step of the runner removes a name from the Context's variables.
C6_VariablesNeverShrink ==
  [][DOMAIN context.variables \subseteq DOMAIN context'.variables]_vars

\* C6 happens: the second testset of a run_testsets call starts its first
\* testcase with the names the first testset extracted or bound still bound.
C6_Witness ==
  /\ top = "run_testsets"
  /\ ts_i = 2
  /\ tc_j = 1
  /\ pc = "update_context"
  /\ extracted # EmptyDict
  /\ DOMAIN extracted \subseteq DOMAIN context.variables
  /\ BoundNames(config_dict) = {}
  /\ BoundNames(testcase) = {}

\* C7: the list run_testsets returns has one element per testset, the i-th
\* holding one result per testcase of the i-th testset, the j-th being the
\* result the j-th testcase returned.
C7_ResultsAligned ==
  [][(pc = "run_testsets" /\ pc' = "idle") =>
       /\ ret'.kind = "return"
       /\ Len(ret'.value) = n_sets
       /\ \A i \in 1..n_sets :
            /\ Len(ret'.value[i]) = sizes[i]
            /\ \A j \in 1..sizes[i] :
                 \E c \in Range(completed) :
                    c.at = <<i, j>> /\ c.result = ret'.value[i][j]]_vars

\* C7 happens: run_testsets returned for an empty testset followed by a
\* testset of two testcases with different results.
C7_Witness ==
  /\ ret.kind = "return"
  /\ ret.api = "run_testsets"
  /\ Len(ret.value) = 2
  /\ ret.value[1] = <<>>
  /\ Len(ret.value[2]) = 2
  /\ ret.value[2][1] # ret.value[2][2]

\* the error the statement of run_test about to run raises, "none" if it
\* goes through
StepError ==
  CASE pc = "update_context" ->
         update_context(context, testset_req_overall_configs, testcase,
                        DefaultLevel).err
    [] pc = "merge" -> merge_request(testset_req_overall_configs, testcase).err
    [] pc = "parse_template" -> parse_template(testcase_request, context.variables).err
    [] pc = "pop" -> pop_url_method(parsed_request).err
    [] pc = "request" ->
         IF \A o \in Transport(url, method, parsed_request) : o.err # "none"
           THEN (CHOOSE o \in Transport(url, method, parsed_request) : TRUE).err
           ELSE "none"
    [] pc = "extract" ->
         extract_response(resp, Get(testcase, "extract_binds", EmptyDict)).err
    [] pc = "validate" ->
         validate(resp, Get(testcase, "validators", <<>>), context.variables).err
    [] OTHER -> "none"

\* C8: an error raised by a statement of run_test ends the caller's call
\* with that error: no later statement of the testcase runs and no result
\* is recorded for it.
C8_ErrorsPropagate ==
  [][(pc \in RunTestPcs /\ StepError # "none") =>
       /\ pc' = "idle"
       /\ ret' = Raised(StepError)
       /\ completed' = completed
       /\ dispatched' = IF pc = "request"
                          THEN Append(dispatched, <<ts_i, tc_j>>)
                          ELSE dispatched]_vars

\* C8 happens: a testcase of a testset got its response and then failed in
\* extraction, and the call ended with that error.
C8_Witness ==
  /\ ret.kind = "raise"
  /\ ret.api \in {"run_testset", "run_testsets"}
  /\ ret.err = "ParseResponseError"
  /\ Len(dispatched) = Len(completed) + 1

RECURSIVE OrderUpTo(_, _)
\* <<i, j>> for the testcases of the first n testsets, in input order
OrderUpTo(sz, n) ==
  IF n = 0 THEN <<>>
  ELSE OrderUpTo(sz, n - 1) \o [j \in 1..sz[n] |-> <<n, j>>]

\* the testcases of the call in input order; run_test alone runs <<0, 0>>
InputOrder ==
  IF top = "run_test" \/ (pc = "idle" /\ ret.api = "run_test")
    THEN << <<0, 0>> >>
    ELSE OrderUpTo(sizes, Len(sizes))

\* C9: requests are sent in input order, one testcase at a time: when a
\* testcase has not yet sent its request, every testcase before it has
\* returned, and it is the next one in input order.
C9_SequentialInOrder ==
  /\ Len(dispatched) <= Len(InputOrder)
  /\ dispatched = SubSeq(InputOrder, 1, Len(dispatched))
  /\ Len(completed) <= Len(dispatched)
  /\ Len(dispatched) <= Len(completed) + 1
  /\ \A k \in 1..Len(completed) : completed[k].at = InputOrder[k]
  /\ (pc \in {"update_context", "merge", "parse_template", "pop", "request"}) =>
       /\ Len(dispatched) = Len(completed)
       /\ InputOrder[Len(completed) + 1] = <<ts_i, tc_j>>

\* C9 happens: the first testcase of the second testset is about to send
\* its request, after the two testcases of the first testset.
C9_Witness ==
  /\ top = "run_testsets"
  /\ pc = "request"
  /\ sizes = <<2, 1>>
  /\ <<ts_i, tc_j>> = <<2, 1>>
  /\ dispatched = << <<1, 1>>, <<1, 2>> >>

\* the name a variable_binds entry binds
BindName(item) == CHOOSE k \in DOMAIN item : TRUE

\* C10: when a testcase's request is resolved, every name its variable_binds
\* binds to a literal has that value, whatever the testset's config bound
\* it to.
C10_TestcaseBindingWins ==
  (pc = "parse_template") =>
    LET binds == Get(testcase, "variable_binds", <<>>)
    IN \A i \in 1..Len(binds) :
         (/\ ~Has(binds[i][BindName(binds[i])], "func")
          /\ \A k \in (i + 1)..Len(binds) : BindName(binds[k]) # BindName(binds[i]))
         => /\ BindName(binds[i]) \in DOMAIN context.variables
            /\ context.variables[BindName(binds[i])] = binds[i][BindName(binds[i])]

\* C10 happens: the testset's config and the testcase bind the same name to
\* different literals, and the testcase's request is about to be resolved.
C10_Witness ==
  /\ InTestset
  /\ pc = "parse_template"
  /\ LET cb == Get(config_dict, "variable_binds", <<>>)
         tb == Get(testcase, "variable_binds", <<>>)
     IN \E i \in 1..Len(cb), k \in 1..Len(tb) :
          /\ BindName(cb[i]) = BindName(tb[k])
          /\ ~Has(cb[i][BindName(cb[i])], "func")
          /\ ~Has(tb[k][BindName(tb[k])], "func")
          /\ cb[i][BindName(cb[i])] # tb[k][BindName(tb[k])]

\* C11: run_test does not mutate the testcase it is given.  No statement of
\* run_test that leaves control inside run_test changes the testcase, and the
\* statement that removes url and method removes them from the resolved copy
\* only: the testcase's own request keeps every key it had.
C11_TestcaseNotMutated ==
  [][(pc \in RunTestPcs) =>
       /\ (pc' \in RunTestPcs) => testcase' = testcase
       /\ (pc = "pop" /\ pc' = "request") =>
            /\ testcase'.request = testcase.request
            /\ ~Has(parsed_request', "url")
            /\ ~Has(parsed_request', "method")]_vars

\* url and method have been popped from the resolved copy and the testcase's
\* request still has both
C11_Witness ==
  /\ pc = "request"
  /\ Has(testcase, "request")
  /\ Has(testcase.request, "url")
  /\ Has(testcase.request, "method")
  /\ ~Has(parsed_request, "url")
  /\ ~Has(parsed_request, "method")

\* C12: update_context changes the suite-level request only at level
\* "testset".  Wherever the caller can call it, update_context at level
\* "testcase" gives back the suite-level request it was given, for every
\* config, also one with a request key; the calls run_test and run_testset
\* make (default level) leave it unchanged; and whenever the suite-level
\* request changes, the step is a direct update_context call that returned
\* and the new value is the request of one of the configs.
C12_OnlyTestsetLevelSetsSuite ==
  [][/\ (pc = "idle") =>
          \A config \in Configs :
            update_context(context, testset_req_overall_configs, config,
                           "testcase").testset_req_overall_configs
              = testset_req_overall_configs
     /\ (pc \in {"update_context", "run_testset"}) =>
          UNCHANGED testset_req_overall_configs
     /\ (testset_req_overall_configs' # testset_req_overall_configs) =>
          /\ pc = "idle"
          /\ ret'.api = "update_context"
          /\ ret'.kind = "return"
          /\ \E config \in Configs :
               testset_req_overall_configs' = Get(config, "request", EmptyDict)
    ]_vars

\* run_test has applied a testcase that carries a request (level "testcase")
\* and the suite-level request is still empty
C12_Witness ==
  /\ pc = "merge"
  /\ Has(testcase, "request")
  /\ testcase.request # EmptyDict
  /\ testset_req_overall_configs = EmptyDict

\* C13: within one update_context call the modules are imported first, then
\* the functions bound, then the variables.  So wherever the caller can call
\* it, also on a runner that has bound nothing yet, a config whose
\* {func, args} variables all name a function of its own function_binds, the
\* module of which is in its own requires, is applied without error and all
\* the variables it names are bound.
C13_BindingOrder ==
  (pc = "idle") =>
    \A config \in Configs : \A level \in Levels :
      LET binds == Get(config, "variable_binds", <<>>)
          funcs == Get(config, "function_binds", EmptyDict)
          mods  == Range(Get(config, "requires", <<>>))
          calls == {i \in 1..Len(binds) : Has(binds[i][BindName(binds[i])], "func")}
          r     == update_context(context, testset_req_overall_configs, config, level)
      IN (/\ calls # {}
          /\ \A i \in calls :
               LET f == binds[i][BindName(binds[i])].func
               IN Has(funcs, f) /\ funcs[f].module \in mods)
         => /\ r.err = "none"
            /\ \A n \in BoundNames(config) : Has(r.context.variables, n)
            /\ DOMAIN funcs \subseteq DOMAIN r.context.functions
            /\ mods \subseteq r.context.requires

\* update_context has returned and R holds what the function gen, declared
\* by the config that binds R, gave for the argument bound just before it
C13_Witness ==
  /\ pc = "idle"
  /\ ret.api = "update_context"
  /\ ret.kind = "return"
  /\ Has(context.functions, "gen")
  /\ Has(context.variables, "R")
  /\ context.variables.R = Invoke(GenRandom, <<Str(<<"abc">>)>>)

\* C14: extraction comes after the response and before validation.  While
\* run_test extracts, validates or returns, the request of this testcase has
\* been dispatched and its response obtained; once extraction is done every
\* variable of extract_binds holds the value taken from this response; and
\* the result run_test returns is the one the validators give on the Context
\* variables that include those values.
C14_ExtractBeforeValidate ==
  LET binds == Get(testcase, "extract_binds", EmptyDict)
  IN /\ (pc \in {"extract", "validate", "return"}) =>
          /\ resp \in Responses
          /\ dispatched # <<>>
          /\ dispatched[Len(dispatched)] = <<ts_i, tc_j>>
     /\ (pc \in {"validate", "return"}) =>
          \A n \in DOMAIN binds :
            /\ Has(context.variables, n)
            /\ context.variables[n] = resp[binds[n]]
     /\ (pc = "return") =>
          LET r == validate(resp, Get(testcase, "validators", <<>>),
                            context.variables)
          IN r.err = "none" /\ outcome = <<r.success, r.diff>>

\* a testcase that extracts token and validates the response against
\* ${token} has passed on a response whose token is not the one bound before
C14_Witness ==
  /\ pc = "return"
  /\ Has(testcase, "extract_binds")
  /\ Has(testcase, "validators")
  /\ resp.token = Str(<<"t2">>)
  /\ context.variables.token = Str(<<"t2">>)
  /\ outcome = <<TRUE, <<>>>>

\* C15: the overlay acts on top-level keys only.  Where the suite-level
\* request and the testcase's request both give a mapping under one key, the
\* effective request has under that key the sub-keys of the testcase's
\* mapping and no other, before resolution and in the arguments of the
\* request sent: sub-keys only the suite's mapping has are not inherited.
C15_TopLevelOverlayOnly ==
  (pc \in {"parse_template", "request"}) =>
    \A k \in DOMAIN testcase.request \cap DOMAIN testset_req_overall_configs :
      (~IsStr(testcase.request[k]) /\ ~IsStr(testset_req_overall_configs[k])) =>
        LET got == IF pc = "request" THEN parsed_request[k] ELSE testcase_request[k]
        IN /\ ~IsStr(got)
           /\ DOMAIN got.m = DOMAIN testcase.request[k].m

\* suite headers {X: "1", Y: "3"}, testcase headers {X: "2"}: the request
\* about to be sent has headers {X: "2"}
C15_Witness ==
  /\ pc = "request"
  /\ Has(testset_req_overall_configs, "headers")
  /\ testset_req_overall_configs.headers =
       Map([X |-> Str(<<"1">>), Y |-> Str(<<"3">>)])
  /\ Has(testcase.request, "headers")
  /\ testcase.request.headers = Map([X |-> Str(<<"2">>)])
  /\ Has(parsed_request, "headers")
  /\ parsed_request.headers = Map([X |-> Str(<<"2">>)])

\* C16: a testcase's variable bindings are not scoped to it.  From the moment
\* a testset's config has been applied until the testset ends, no variable
\* is dropped from the Context, and a variable changes its value only in the
\* step in which a testcase binds it (variable_binds) or extracts it
\* (extract_binds); each request is resolved against the Context variables as
\* they then stand.  So the value testcase i bound is the one its sibling
\* i+1 resolves with unless that sibling binds the name itself: the value of
\* the testset's config is not restored.
C16_BindingsNotScoped ==
  [][(/\ InTestset
      /\ pc \in RunTestPcs \cup {"for_testcase"}
      /\ pc' \in RunTestPcs \cup {"for_testcase"}) =>
       /\ DOMAIN context.variables \subseteq DOMAIN context'.variables
       /\ \A n \in DOMAIN context.variables :
            (context'.variables[n] # context.variables[n]) =>
              \/ pc = "update_context" /\ n \in BoundNames(testcase)
              \/ pc = "extract"
                   /\ n \in DOMAIN Get(testcase, "extract_binds", EmptyDict)
       /\ (pc' = "pop") =>
            parsed_request' =
              parse_template(testcase_request, context.variables).value]_vars

\* the testset's config bound H to "abc", the first testcase bound it to
\* "xyz", and the second testcase, which does not bind H, has its header
\* ${H} resolved to "xyz"
C16_Witness ==
  /\ InTestset
  /\ tc_j = 2
  /\ pc = "pop"
  /\ <<[H |-> Str(<<"abc">>)]>> = Get(config_dict, "variable_binds", <<>>)
  /\ "H" \notin BoundNames(testcase)
  /\ Has(testcase_request, "headers")
  /\ testcase_request.headers = Map([A |-> Str(<<"${H}">>)])
  /\ parsed_request.headers = Map([A |-> Str(<<"xyz">>)])

\* C17: update_context at level "testset" replaces the suite-level request
\* wholesale.  Wherever the caller can call it, whatever the suite-level
\* request then is, a call that returns leaves as suite-level request the
\* config's request, or the empty mapping when the config has no request
\* key: no key of the request it found is carried over.
C17_TestsetLevelReplaces ==
  (pc = "idle") =>
    \A config \in Configs :
      LET r == update_context(context, testset_req_overall_configs, config,
                              "testset")
      IN (r.err = "none") =>
           r.testset_req_overall_configs =
             IF Has(config, "request") THEN config.request ELSE EmptyDict

\* an update_context call has left a suite-level request with url, method
\* and headers; a call at level "testset" with a config that has no request
\* key leaves none of them, and one with a config whose request has only
\* headers leaves neither url nor method
C17_Witness ==
  /\ pc = "idle"
  /\ ret.api = "update_context"
  /\ ret.kind = "return"
  /\ {"url", "method", "headers"} \subseteq DOMAIN testset_req_overall_configs
  /\ \E config \in Configs :
       /\ ~Has(config, "request")
       /\ update_context(context, testset_req_overall_configs, config,
                         "testset").testset_req_overall_configs = EmptyDict
  /\ \E config \in Configs :
       /\ Has(config, "request")
       /\ DOMAIN update_context(context, testset_req_overall_configs, config,
                                "testset").testset_req_overall_configs
            = {"headers"}

\* C18: a failing run_test is not rolled back.  When the resolution of the
\* request raises, or the url/method check raises ParamsError, the step
\* leaves the Context and the suite-level request as they are; the Context
\* then holds the testcase's own bindings (each literal of variable_binds
\* with its value, every name of variable_binds and function_binds, every
\* module of requires); and nothing was extracted for this testcase: its
\* request was not dispatched and no response was obtained.
C18_FailureNotRolledBack ==
  [][(pc \in {"parse_template", "pop"} /\ ret'.kind = "raise") =>
       LET binds == Get(testcase, "variable_binds", <<>>)
       IN /\ ret'.err = IF pc = "pop" THEN "ParamsError" ELSE "VariableNotFound"
          /\ context' = context
          /\ testset_req_overall_configs' = testset_req_overall_configs
          /\ \A i \in 1..Len(binds) :
               /\ Has(context'.variables, BindName(binds[i]))
               /\ ~Has(binds[i][BindName(binds[i])], "func") =>
                    context'.variables[BindName(binds[i])]
                      = binds[i][BindName(binds[i])]
          /\ DOMAIN Get(testcase, "function_binds", EmptyDict)
               \subseteq DOMAIN context'.functions
          /\ Range(Get(testcase, "requires", <<>>)) \subseteq context'.requires
          /\ resp = EmptyDict
          /\ extracted' = extracted
          /\ dispatched' = dispatched
          /\ \A i \in 1..Len(dispatched) : dispatched[i] # <<ts_i, tc_j>>]_vars

\* run_test has raised ParamsError for the testcase that binds H to "xyz"
\* and gives no url, and H is "xyz" in the Context
C18_Witness ==
  /\ pc = "idle"
  /\ ret.kind = "raise"
  /\ ret.api = "run_test"
  /\ ret.err = "ParamsError"
  /\ dispatched = <<>>
  /\ Has(context.variables, "H")
  /\ context.variables.H = Str(<<"xyz">>)

\* C19: run_testset and run_testsets abort on the first error.  A call of
\* one of them that ended with an error hands no results to the caller,
\* whatever was collected before; the testcase that failed has no result, at
\* most its request was sent, and no testcase after it was dispatched.  A
\* call that returned a list has dispatched and completed every testcase of
\* every testset, so a list is returned only when no testcase failed.
C19_AbortOnFirstError ==
  (pc = "idle" /\ ret.api \in {"run_testset", "run_testsets"}) =>
    /\ ret.kind \in {"raise", "return"}
    /\ (ret.kind = "raise") =>
         /\ ret.value = <<>>
         /\ Len(completed) < Len(InputOrder)
         /\ Len(dispatched) <= Len(completed) + 1
         /\ dispatched = SubSeq(InputOrder, 1, Len(dispatched))
    /\ (ret.kind = "return") =>
         /\ dispatched = InputOrder
         /\ Len(completed) = Len(InputOrder)

\* run_testsets ended with an error in the second testset, after a first
\* testset of two testcases had completed with results: none is returned
C19_Witness ==
  /\ pc = "idle"
  /\ ret.kind = "raise"
  /\ ret.api = "run_testsets"
  /\ ret.value = <<>>
  /\ sizes = <<2, 1>>
  /\ Len(completed) = 2

\* C20: a testcase without a request key makes run_test fail with KeyError,
\* not ParamsError, whatever the suite-level request supplies.  The error is
\* raised by the statement that builds the effective request: after the
\* testcase's bindings went into the Context, where they stay, and before
\* anything is resolved or sent; no later statement of run_test is ever
\* reached for such a testcase.
C20_MissingRequestKeyError ==
  [][/\ (pc \in RunTestPcs \ {"update_context", "merge"}) =>
          Has(testcase, "request")
     /\ (pc = "update_context" /\ ~Has(testcase, "request")) =>
          \/ pc' = "merge"
          \/ ret'.kind = "raise" /\ ret'.err \notin {"KeyError", "ParamsError"}
     /\ (pc = "merge" /\ ~Has(testcase, "request")) =>
          LET binds == Get(testcase, "variable_binds", <<>>)
          IN /\ pc' = "idle"
             /\ ret' = Raised("KeyError")
             /\ context' = context
             /\ \A i \in 1..Len(binds) :
                  Has(context'.variables, BindName(binds[i]))
             /\ parsed_request = EmptyDict
             /\ dispatched' = dispatched
             /\ completed' = completed]_vars

\* run_test has raised KeyError although the suite-level request has url
\* and method; the variable the testcase binds is in the Context and no
\* request was sent
C20_Witness ==
  /\ pc = "idle"
  /\ ret.kind = "raise"
  /\ ret.api = "run_test"
  /\ ret.err = "KeyError"
  /\ {"url", "method"} \subseteq DOMAIN testset_req_overall_configs
  /\ Has(context.variables, "token")
  /\ dispatched = <<>>

====
